---- MODULE Spec2Model ----
(***************************************************************************)
(* ElasticsearchDocumentStore (haystack/database/elasticsearch.py).        *)
(*                                                                         *)
(* A Python string is a sequence of symbols; "." is the one symbol the     *)
(* constructor splits on.  Dictionaries keyed by field names are functions *)
(* whose domain is a set of such strings.  An optional argument is a       *)
(* record [some, v]; None is [some |-> FALSE].  Scores are integers, the   *)
(* literal 1.0 of the scoring script is the integer 1.                     *)
(***************************************************************************)
EXTENDS Integers, Sequences, FiniteSets, TLC

VARIABLES phase, args, self, call, ret, searchCalls, scanYielded, consumed

vars == <<phase, args, self, call, ret, searchCalls, scanYielded, consumed>>

----------------------------------------------------------------------------
(* Bounds *)

MaxLen == 3
MaxInner == 3
MaxHits == 2
MaxScore == 2
MaxTopK == 2
MaxDocs == 3
MaxCalls == 1

----------------------------------------------------------------------------
(* Python values *)

Sep == "."

None == [some |-> FALSE]

Some(x) == [some |-> TRUE, v |-> x]

\* truth value of an optional string or list: None and the empty one are falsy
Truthy(o) == o.some /\ Len(o.v) > 0

Min(a, b) == IF a < b THEN a ELSE b

SeqsUpTo(S, n) == UNION {[1..k -> S] : k \in 0..n}

\* str.split('.')
RECURSIVE Split(_)
Split(s) ==
  IF s = <<>> THEN << <<>> >>
  ELSE LET rest == Split(Tail(s))
       IN IF Head(s) = Sep
          THEN << <<>> >> \o rest
          ELSE << <<Head(s)>> \o Head(rest) >> \o Tail(rest)

\* '.'.join(parts)
RECURSIVE Join(_)
Join(parts) ==
  IF parts = <<>> THEN <<>>
  ELSE IF Len(parts) = 1 THEN parts[1]
  ELSE parts[1] \o <<Sep>> \o Join(Tail(parts))

\* parts[:-1]
ButLast(parts) == SubSeq(parts, 1, Len(parts) - 1)

\* parts[-1]
Last(parts) == parts[Len(parts)]

----------------------------------------------------------------------------
(* __init__ *)

\* the default mapping built when no custom_mapping is supplied
DefaultMapping(a) ==
  LET base == [f \in {a.name_field, a.text_field, a.doc_id_field} |-> [type |-> "text"]]
  IN IF Truthy(a.embedding_field)
     THEN [f \in DOMAIN base \cup {a.embedding_field.v} |->
             IF f = a.embedding_field.v
             THEN [type |-> "dense_vector", dims |-> a.embedding_dim]
             ELSE base[f]]
     ELSE base

NestedPathsMismatch_NameIgnored(text_field_parts, name_field_parts, doc_id_field_parts) ==
  /\ (Len(text_field_parts) > 1 \/ Len(doc_id_field_parts) > 1 \/ Len(name_field_parts) > 1)
  /\ ~ (ButLast(text_field_parts) = ButLast(doc_id_field_parts))

\* the condition under which the constructor raises
NestedPathsMismatch(text_field_parts, name_field_parts, doc_id_field_parts) ==
  /\ (Len(text_field_parts) > 1 \/ Len(doc_id_field_parts) > 1 \/ Len(name_field_parts) > 1)
  /\ ~ (/\ ButLast(text_field_parts) = ButLast(doc_id_field_parts)
        /\ ButLast(doc_id_field_parts) = ButLast(name_field_parts))

\* the store's fields after a constructor call that did not raise
StoreOf(a) ==
  LET text_field_parts == Split(a.text_field)
      name_field_parts == Split(a.name_field)
      doc_id_field_parts == Split(a.doc_id_field)
  IN [mapping |-> DefaultMapping(a),
      search_fields |-> a.search_fields,
      embedding_field |-> a.embedding_field,
      excluded_meta_data |-> a.excluded_meta_data,
      is_nested |-> Len(text_field_parts) > 1,
      nested_path |-> IF Len(text_field_parts) > 1
                      THEN Join(ButLast(text_field_parts)) ELSE <<>>,
      text_field |-> Last(text_field_parts),
      name_field |-> Last(name_field_parts),
      doc_id_field |-> Last(doc_id_field_parts)]

NoStore == [constructed |-> FALSE]

NoCall == [op |-> "none"]

NoRet == [outcome |-> "none"]

Construct ==
  /\ phase = "new"
  /\ IF NestedPathsMismatch(Split(args.text_field), Split(args.name_field),
                            Split(args.doc_id_field))
     THEN /\ phase' = "failed"
          /\ self' = NoStore
     ELSE /\ phase' = "idle"
          /\ self' = StoreOf(args)
  /\ UNCHANGED <<args, call, ret, searchCalls, scanYielded, consumed>>

----------------------------------------------------------------------------
(* Constructor arguments *)

Emb(name) == Some(<<name>>)

ArgsOf(t, n, d, e, x) ==
  [text_field |-> t, name_field |-> n, doc_id_field |-> d,
   search_fields |-> << <<"text">> >>,
   embedding_field |-> e, embedding_dim |-> 2, excluded_meta_data |-> x]

\* every field path over the symbols p and "." of at most MaxLen symbols
PathAlphabet == {"p", Sep}

Paths == SeqsUpTo(PathAlphabet, MaxLen) \ {<<>>}

CtorArgs == {ArgsOf(t, n, d, None, None) : t \in Paths, n \in Paths, d \in Paths}

InitWith(A) ==
  /\ phase = "new"
  /\ args \in A
  /\ self = NoStore
  /\ call = NoCall
  /\ ret = NoRet
  /\ searchCalls = 0
  /\ scanYielded = 0
  /\ consumed = 0

InitCtor == InitWith(CtorArgs)

NextCtor == Construct

SpecCtor == InitCtor /\ [][NextCtor]_vars

----------------------------------------------------------------------------
(* Results of a call *)

Ok(v) == [outcome |-> "ok", value |-> v]

Raise(e) == [outcome |-> "raise", error |-> e]

\* dict.pop(k) on a dict that has the key: the dict that is left
Pop(d, k) == [f \in DOMAIN d \ {k} |-> d[f]]

\* dict.update(other)
Update(d, other) ==
  [k \in DOMAIN d \cup DOMAIN other |-> IF k \in DOMAIN other THEN other[k] ELSE d[k]]

----------------------------------------------------------------------------
(* prepare_query *)

PrepareQuery_EmptyFilterKept(store, search_fields, top_k, candidate_doc_ids) ==
  LET multi_match == [multi_match |-> [query |-> search_fields, type |-> "most_fields",
                                       fields |-> store.search_fields]]
      bool == IF candidate_doc_ids.some
              THEN [bool |-> [should |-> <<multi_match>>,
                              filter |-> << [terms |-> [_id |-> candidate_doc_ids.v]] >>]]
              ELSE [bool |-> [should |-> <<multi_match>>]]
      query == IF store.is_nested
               THEN [nested |-> [path |-> store.nested_path, query |-> bool,
                                 inner_hits |-> <<>>]]
               ELSE bool
  IN IF Truthy(store.excluded_meta_data)
     THEN [size |-> top_k, query |-> query,
           _source |-> [excludes |-> store.excluded_meta_data.v]]
     ELSE [size |-> top_k, query |-> query]

PrepareQuery(store, search_fields, top_k, candidate_doc_ids) ==
  LET multi_match == [multi_match |-> [query |-> search_fields, type |-> "most_fields",
                                       fields |-> store.search_fields]]
      bool == IF Truthy(candidate_doc_ids)
              THEN [bool |-> [should |-> <<multi_match>>,
                              filter |-> << [terms |-> [_id |-> candidate_doc_ids.v]] >>]]
              ELSE [bool |-> [should |-> <<multi_match>>]]
      query == IF store.is_nested
               THEN [nested |-> [path |-> store.nested_path, query |-> bool,
                                 inner_hits |-> <<>>]]
               ELSE bool
  IN IF Truthy(store.excluded_meta_data)
     THEN [size |-> top_k, query |-> query,
           _source |-> [excludes |-> store.excluded_meta_data.v]]
     ELSE [size |-> top_k, query |-> query]

----------------------------------------------------------------------------
(* extract_paragraphs *)

\* one turn of the loop: the text is popped, then the other fields are read
FlatRowOk(store, hit) ==
  /\ store.text_field \in DOMAIN hit._source
  /\ {store.doc_id_field, store.name_field} \subseteq DOMAIN Pop(hit._source, store.text_field)

FlatMeta(store, hit) ==
  LET rest == Pop(hit._source, store.text_field)
  IN [paragraph_id |-> hit._id,
      document_id |-> rest[store.doc_id_field],
      document_name |-> rest[store.name_field],
      score |-> hit._score,
      custom_meta |-> rest]

ExtractParagraphs(store, result) ==
  IF \E i \in 1..Len(result) : ~ FlatRowOk(store, result[i])
  THEN Raise("KeyError")
  ELSE Ok(<< [i \in 1..Len(result) |-> result[i]._source[store.text_field]],
             [i \in 1..Len(result) |-> FlatMeta(store, result[i])] >>)

----------------------------------------------------------------------------
(* extract_paragraphs_nested *)

InnerHitsOf(store, hit) == hit.inner_hits[store.nested_path].hits.hits

\* the (paragraph, cur_meta) pair appended for one inner hit
NestedPair(store, hit, inner_hit) ==
  << inner_hit._source[store.text_field],
     [paragraph_id |-> hit._id,
      document_id |-> inner_hit._source[store.doc_id_field],
      document_name |-> inner_hit._source[store.name_field],
      score |-> inner_hit._score,
      custom_meta |-> inner_hit._source] >>

\* the two nested loops: list(zip(paragraphs, meta_data))
RECURSIVE Zipped(_, _)
Zipped(store, result) ==
  IF result = <<>> THEN <<>>
  ELSE LET hit == Head(result)
           inner == InnerHitsOf(store, hit)
       IN [j \in 1..Len(inner) |-> NestedPair(store, hit, inner[j])]
          \o Zipped(store, Tail(result))

\* where a pair goes in a list sorted by score, descending: behind every pair
\* whose score is at least its own (the sort is stable)
RECURSIVE InsertDesc(_, _)
InsertDesc(x, sorted) ==
  IF sorted = <<>> THEN <<x>>
  ELSE IF Head(sorted)[2].score >= x[2].score
       THEN <<Head(sorted)>> \o InsertDesc(x, Tail(sorted))
       ELSE <<x>> \o sorted

SortDesc_Unsorted(zipped) == zipped

\* zipped.sort(key=lambda x: x[1]["score"], reverse=True)
RECURSIVE SortDesc(_)
SortDesc(zipped) ==
  IF zipped = <<>> THEN <<>>
  ELSE InsertDesc(zipped[Len(zipped)], SortDesc(ButLast(zipped)))

\* zipped[:top_k], top_k >= 0
Truncate(zipped, top_k) == SubSeq(zipped, 1, Min(top_k, Len(zipped)))

\* paragraphs, meta_data = zip(*zipped): unpacking two values out of none fails
Unzip(zipped) ==
  IF zipped = <<>>
  THEN Raise("ValueError")
  ELSE Ok(<< [i \in 1..Len(zipped) |-> zipped[i][1]],
             [i \in 1..Len(zipped) |-> zipped[i][2]] >>)

NestedRowsOk(store, result) ==
  \A i \in 1..Len(result) :
    /\ store.nested_path \in DOMAIN result[i].inner_hits
    /\ \A j \in 1..Len(InnerHitsOf(store, result[i])) :
         {store.text_field, store.doc_id_field, store.name_field}
           \subseteq DOMAIN InnerHitsOf(store, result[i])[j]._source

ExtractParagraphsNested(store, result, top_k) ==
  IF ~ NestedRowsOk(store, result)
  THEN Raise("KeyError")
  ELSE Unzip(Truncate(SortDesc(Zipped(store, result)), top_k))

----------------------------------------------------------------------------
(* query_by_embedding *)

NoEmbeddingField_Unchecked(store) == FALSE

\* not self.embedding_field
NoEmbeddingField(store) == ~ Truthy(store.embedding_field)

ScriptOffset == 1

ScoreCorrection == 1

MatchAll == [match_all |-> <<>>]

\* "cosineSimilarity(params.query_vector,doc['question_emb']) + 1.0", by its parts
ScriptSource ==
  [similarity |-> "cosineSimilarity", query_vector |-> "params.query_vector",
   doc_field |-> <<"question_emb">>, offset |-> ScriptOffset]

EmbeddingBody(store, query_emb, top_k, candidate_doc_ids) ==
  LET base == IF Truthy(candidate_doc_ids)
              THEN [bool |-> [should |-> <<MatchAll>>,
                              filter |-> << [terms |-> [_id |-> candidate_doc_ids.v]] >>]]
              ELSE MatchAll
      query == [script_score |->
                  [query |-> base,
                   script |-> [source |-> ScriptSource,
                               params |-> [query_vector |-> query_emb]]]]
  IN IF Truthy(store.excluded_meta_data)
     THEN [size |-> top_k, query |-> query,
           _source |-> [excludes |-> store.excluded_meta_data.v]]
     ELSE [size |-> top_k, query |-> query]

\* the three pops of one turn of the loop find their keys
EmbRowOk(store, hit) ==
  /\ store.text_field \in DOMAIN hit._source
  /\ store.doc_id_field \in DOMAIN Pop(hit._source, store.text_field)
  /\ store.name_field \in DOMAIN Pop(Pop(hit._source, store.text_field), store.doc_id_field)

\* cur_meta of one hit, after cur_meta.update(hit["_source"])
EmbMeta(store, hit) ==
  LET s1 == Pop(hit._source, store.text_field)
      s2 == Pop(s1, store.doc_id_field)
      s3 == Pop(s2, store.name_field)
      cur_meta == [k \in {<<"paragraph_id">>, <<"document_id">>,
                          <<"document_name">>, <<"score">>} |->
                     IF k = <<"paragraph_id">> THEN hit._id
                     ELSE IF k = <<"document_id">> THEN s1[store.doc_id_field]
                     ELSE IF k = <<"document_name">> THEN s2[store.name_field]
                     ELSE hit._score - ScoreCorrection]
  IN Update(cur_meta, s3)

ExtractEmbedding(store, result) ==
  IF \E i \in 1..Len(result) : ~ EmbRowOk(store, result[i])
  THEN Raise("KeyError")
  ELSE Ok(<< [i \in 1..Len(result) |-> result[i]._source[store.text_field]],
             [i \in 1..Len(result) |-> EmbMeta(store, result[i])] >>)

----------------------------------------------------------------------------
(* get_document_by_id, get_document_by_name *)

\* result[key] where result is a list and key a str: list indices must be integers
ListItemByStr(result, key) == Raise("TypeError")

\* the if/else both lookups end with; "id": result[self.doc_id_field] is evaluated first
DocumentOf(store, result) ==
  IF result # <<>>
  THEN ListItemByStr(result, store.doc_id_field)
  ELSE Ok(None)

----------------------------------------------------------------------------
(* write_documents *)

IndexOne_NoCatch(documents, fails, st) ==
  IF fails[st.i]
  THEN [st EXCEPT !.i = Len(documents) + 1,
                  !.indexed = Append(@, documents[st.i]),
                  !.raised = TRUE]
  ELSE [st EXCEPT !.i = @ + 1,
                  !.indexed = Append(@, documents[st.i]),
                  !.stored = Append(@, documents[st.i])]

\* one turn of the loop: the index call, and the logger.error of the except branch
IndexOne(documents, fails, st) ==
  IF fails[st.i]
  THEN [st EXCEPT !.i = @ + 1,
                  !.indexed = Append(@, documents[st.i]),
                  !.logged = Append(@, documents[st.i])]
  ELSE [st EXCEPT !.i = @ + 1,
                  !.indexed = Append(@, documents[st.i]),
                  !.stored = Append(@, documents[st.i])]

RECURSIVE WriteLoop(_, _, _)
WriteLoop(documents, fails, st) ==
  IF st.i > Len(documents) THEN st
  ELSE WriteLoop(documents, fails, IndexOne(documents, fails, st))

WriteStart == [i |-> 1, indexed |-> <<>>, stored |-> <<>>, logged |-> <<>>, raised |-> FALSE]

----------------------------------------------------------------------------
(* get_all_documents *)

ScanRowOk(store, hit) ==
  {store.doc_id_field, store.name_field, store.text_field} \subseteq DOMAIN hit._source

ScanDocument(store, hit) ==
  [id |-> hit._source[store.doc_id_field],
   name |-> hit._source[store.name_field],
   text |-> hit._source[store.text_field]]

\* the for loop over the scan
AllDocuments(store, result) ==
  IF \E i \in 1..Len(result) : ~ ScanRowOk(store, result[i])
  THEN Raise("KeyError")
  ELSE Ok([i \in 1..Len(result) |-> ScanDocument(store, result[i])])

----------------------------------------------------------------------------
(* What the backend answers *)

Scores == 0..MaxScore

HitId(i) == <<"h", i>>

\* the source of the j-th nested object of the i-th hit (j = 0: the hit itself)
SourceOf(store, i, j) ==
  [f \in {store.text_field, store.doc_id_field, store.name_field} |->
     IF f = store.text_field THEN <<"text", i, j>>
     ELSE IF f = store.doc_id_field THEN <<"doc", i, j>>
     ELSE <<"name", i, j>>]

\* fields a document may carry besides text, name and document id
ExtraKeySets == {{}, {<<"lang">>}, {<<"score">>}}

FlatHit(store, i, score, extra) ==
  [_id |-> HitId(i), _score |-> score,
   _source |-> Update(SourceOf(store, i, 0), [k \in extra |-> 100])]

FlatHits(store, n) ==
  UNION {{[i \in 1..k |-> FlatHit(store, i, sc[i], ex[i])] :
            sc \in [1..k -> Scores], ex \in [1..k -> ExtraKeySets]} : k \in 0..n}

\* the lists of n lists of inner-hit scores holding at most total scores together
RECURSIVE ScoreLists(_, _)
ScoreLists(n, total) ==
  IF n = 0 THEN {<<>>}
  ELSE UNION {{<<first>> \o rest : rest \in ScoreLists(n - 1, total - Len(first))} :
                first \in SeqsUpTo(Scores, total)}

NestedHit(store, path, i, scores) ==
  [_id |-> HitId(i),
   inner_hits |-> [p \in {path} |->
     [hits |-> [hits |-> [j \in 1..Len(scores) |->
        [_score |-> scores[j], _source |-> SourceOf(store, i, j)]]]]]]

NestedHits(store, path, n) ==
  UNION {{[i \in 1..k |-> NestedHit(store, path, i, sl[i])] : sl \in ScoreLists(k, MaxInner)} :
           k \in 0..n}

\* the hits of a search with this body: at most body.size of them
SearchHits(store, body) ==
  IF "nested" \in DOMAIN body.query
  THEN NestedHits(store, body.query.nested.path, Min(body.size, MaxHits))
  ELSE FlatHits(store, Min(body.size, MaxHits))

----------------------------------------------------------------------------
(* The calls a client makes on a constructed store *)

QueryTexts == {<<"why">>}

QueryVectors == {<<1, 0>>}

CandidateIds == {None, Some(<<>>), Some(<<HitId(1), HitId(2)>>)}

Documents == {"doc_a", "doc_b"}

LookupKeys == {<<"k">>}

Query ==
  /\ phase = "idle"
  /\ searchCalls < MaxCalls
  /\ \E query \in QueryTexts, top_k \in 1..MaxTopK, candidate_doc_ids \in CandidateIds :
       LET body == PrepareQuery(self, query, top_k, candidate_doc_ids)
       IN \E result \in SearchHits(self, body) :
            /\ call' = [op |-> "query", query |-> query, top_k |-> top_k,
                        candidate_doc_ids |-> candidate_doc_ids,
                        body |-> body, result |-> result]
            /\ ret' = IF self.is_nested
                      THEN ExtractParagraphsNested(self, result, top_k)
                      ELSE ExtractParagraphs(self, result)
  /\ searchCalls' = searchCalls + 1
  /\ phase' = "returned"
  /\ UNCHANGED <<args, self, scanYielded, consumed>>

QueryByEmbedding ==
  /\ phase = "idle"
  /\ ~ self.is_nested
  /\ ~ NoEmbeddingField(self) => searchCalls < MaxCalls
  /\ \E query_emb \in QueryVectors, top_k \in 1..MaxTopK, candidate_doc_ids \in CandidateIds :
       IF NoEmbeddingField(self)
       THEN /\ call' = [op |-> "query_by_embedding", query_emb |-> query_emb,
                        top_k |-> top_k, candidate_doc_ids |-> candidate_doc_ids]
            /\ ret' = Raise("RuntimeError")
            /\ searchCalls' = searchCalls
       ELSE LET body == EmbeddingBody(self, query_emb, top_k, candidate_doc_ids)
            IN \E result \in FlatHits(self, Min(top_k, MaxHits)) :
                 /\ call' = [op |-> "query_by_embedding", query_emb |-> query_emb,
                             top_k |-> top_k, candidate_doc_ids |-> candidate_doc_ids,
                             body |-> body, result |-> result]
                 /\ ret' = ExtractEmbedding(self, result)
                 /\ searchCalls' = searchCalls + 1
  /\ phase' = "returned"
  /\ UNCHANGED <<args, self, scanYielded, consumed>>

GetDocumentById ==
  /\ phase = "idle"
  /\ ~ self.is_nested
  /\ searchCalls < MaxCalls
  /\ \E id \in LookupKeys, result \in FlatHits(self, MaxHits) :
       /\ call' = [op |-> "get_document_by_id", id |-> id,
                   body |-> [filter |-> [term |-> [_id |-> id]]], result |-> result]
       /\ ret' = DocumentOf(self, result)
  /\ searchCalls' = searchCalls + 1
  /\ phase' = "returned"
  /\ UNCHANGED <<args, self, scanYielded, consumed>>

GetDocumentByName ==
  /\ phase = "idle"
  /\ ~ self.is_nested
  /\ searchCalls < MaxCalls
  /\ \E name \in LookupKeys, result \in FlatHits(self, MaxHits) :
       /\ call' = [op |-> "get_document_by_name", name |-> name,
                   body |-> [filter |-> [term |-> [f \in {self.name_field} |-> name]]],
                   result |-> result]
       /\ ret' = DocumentOf(self, result)
  /\ searchCalls' = searchCalls + 1
  /\ phase' = "returned"
  /\ UNCHANGED <<args, self, scanYielded, consumed>>

WriteDocuments ==
  /\ phase = "idle"
  /\ \E documents \in SeqsUpTo(Documents, MaxDocs) :
       \E fails \in [1..Len(documents) -> BOOLEAN] :
         LET st == WriteLoop(documents, fails, WriteStart)
         IN /\ call' = [op |-> "write_documents", documents |-> documents, fails |-> fails]
            /\ ret' = [outcome |-> IF st.raised THEN "raise" ELSE "ok",
                       indexed |-> st.indexed, stored |-> st.stored, logged |-> st.logged]
  /\ phase' = "returned"
  /\ UNCHANGED <<args, self, searchCalls, scanYielded, consumed>>

GetAllDocuments ==
  /\ phase = "idle"
  /\ ~ self.is_nested
  /\ \E result \in FlatHits(self, MaxHits) :
       /\ call' = [op |-> "get_all_documents", result |-> result]
       /\ ret' = AllDocuments(self, result)
       /\ scanYielded' = Len(result)
  /\ phase' = "returned"
  /\ UNCHANGED <<args, self, searchCalls, consumed>>

\* the caller of get_all_documents takes the next record of what it was handed
ConsumeRecord ==
  /\ phase = "returned"
  /\ call.op = "get_all_documents"
  /\ ret.outcome = "ok"
  /\ consumed < Len(ret.value)
  /\ consumed' = consumed + 1
  /\ UNCHANGED <<phase, args, self, call, ret, searchCalls, scanYielded>>

\* the caller is done with the result; nothing of a call stays in the store
Return ==
  /\ phase = "returned"
  /\ phase' = "idle"
  /\ call' = NoCall
  /\ ret' = NoRet
  /\ scanYielded' = 0
  /\ consumed' = 0
  /\ UNCHANGED <<args, self, searchCalls>>

----------------------------------------------------------------------------
(* The stores of the model *)

FlatArgs(e, x) == ArgsOf(<<"text">>, <<"name">>, <<"document_id">>, e, x)

StoreArgs ==
  {FlatArgs(None, None),
   FlatArgs(Emb("question_emb"), Some(<< <<"lang">> >>)),
   FlatArgs(Emb("emb"), None),
   ArgsOf(<<"p", Sep, "text">>, <<"p", Sep, "name">>, <<"p", Sep, "document_id">>, None, None),
   ArgsOf(<<"p", Sep, "text">>, <<"name">>, <<"document_id">>, None, None)}

Init == InitWith(StoreArgs)

Next ==
  \/ Construct
  \/ Query
  \/ QueryByEmbedding
  \/ GetDocumentById
  \/ GetDocumentByName
  \/ WriteDocuments
  \/ GetAllDocuments
  \/ ConsumeRecord
  \/ Return

Spec == Init /\ [][Next]_vars

----------------------------------------------------------------------------
(* Properties *)

Returned(op) == phase = "returned" /\ call.op = op

Max(a, b) == IF a > b THEN a ELSE b

\* the number of inner hits of a nested result, over all outer hits
RECURSIVE TotalInner(_)
TotalInner(result) ==
  IF result = <<>> THEN 0
  ELSE Len(result[1].inner_hits[self.nested_path].hits.hits) + TotalInner(Tail(result))

NothingMatched ==
  IF self.is_nested THEN TotalInner(call.result) = 0 ELSE call.result = <<>>

\* C1: a query whose search matches nothing (no hits, or in nested mode outer
\* hits without inner hits) returns the pair of empty lists and does not raise.
C1_EmptyResultIsEmptyPair ==
  (Returned("query") /\ NothingMatched) => ret = Ok(<< <<>>, <<>> >>)

\* a field path, read by position: it is dotted when it holds a separator, its
\* prefix is what stands before the last separator, its leaf what stands after
Dotted(s) == \E i \in 1..Len(s) : s[i] = Sep

LastSep(s) == CHOOSE i \in 1..Len(s) : s[i] = Sep /\ \A j \in (i + 1)..Len(s) : s[j] # Sep

PrefixStr(s) == SubSeq(s, 1, LastSep(s) - 1)

LeafStr(s) == IF Dotted(s) THEN SubSeq(s, LastSep(s) + 1, Len(s)) ELSE s

AnyDotted == Dotted(args.text_field) \/ Dotted(args.name_field) \/ Dotted(args.doc_id_field)

AllDotted == Dotted(args.text_field) /\ Dotted(args.name_field) /\ Dotted(args.doc_id_field)

SamePrefixes ==
  \/ ~ AnyDotted
  \/ /\ AllDotted
     /\ PrefixStr(args.text_field) = PrefixStr(args.name_field)
     /\ PrefixStr(args.name_field) = PrefixStr(args.doc_id_field)

\* C2: construction fails exactly when some path is dotted and the three
\* prefixes differ; otherwise the store is flat with an empty nested path when
\* no path is dotted, nested under the shared prefix when all three are dotted,
\* and the working field names are the leaves.
C2_FieldMapping ==
  phase # "new" =>
    /\ (phase = "failed") <=> (AnyDotted /\ ~ SamePrefixes)
    /\ phase # "failed" =>
         /\ ~ AnyDotted => (~ self.is_nested /\ self.nested_path = <<>>)
         /\ AllDotted => (self.is_nested /\ self.nested_path = PrefixStr(args.text_field))
         /\ self.text_field = LeafStr(args.text_field)
         /\ self.name_field = LeafStr(args.name_field)
         /\ self.doc_id_field = LeafStr(args.doc_id_field)

C2_Witness ==
  /\ phase = "idle"
  /\ args.text_field = <<"p", Sep, "p">>
  /\ self.is_nested
  /\ self.nested_path = <<"p">>
  /\ self.text_field = <<"p">>

\* the inner hit a returned text was read from: texts are <<"text", i, j>>
InnerAt(i, j) == call.result[i].inner_hits[self.nested_path].hits.hits[j]

InnerPositions ==
  UNION {{<<i, j>> : j \in 1..Len(call.result[i].inner_hits[self.nested_path].hits.hits)} :
           i \in 1..Len(call.result)}

\* C3: a nested query with n >= 1 inner hits returns min(top_k, n) results, by
\* non-increasing score, each text and metadata record of one inner hit, the
\* paragraph id the id of its outer hit, and no inner hit left out scores
\* higher than one returned.
C3_NestedTopK ==
  (Returned("query") /\ self.is_nested /\ TotalInner(call.result) >= 1) =>
    /\ ret.outcome = "ok"
    /\ LET texts == ret.value[1]
           metas == ret.value[2]
           k == Min(call.top_k, TotalInner(call.result))
           from == [r \in 1..Len(texts) |-> <<texts[r][2], texts[r][3]>>]
       IN /\ Len(texts) = k
          /\ Len(metas) = k
          /\ \A r \in 1..k :
               /\ from[r] \in InnerPositions
               /\ texts[r] = InnerAt(from[r][1], from[r][2])._source[self.text_field]
               /\ metas[r].score = InnerAt(from[r][1], from[r][2])._score
               /\ metas[r].document_id =
                    InnerAt(from[r][1], from[r][2])._source[self.doc_id_field]
               /\ metas[r].document_name =
                    InnerAt(from[r][1], from[r][2])._source[self.name_field]
               /\ metas[r].paragraph_id = call.result[from[r][1]]._id
          /\ \A r1, r2 \in 1..k : r1 < r2 =>
               (from[r1] # from[r2] /\ metas[r1].score >= metas[r2].score)
          /\ \A pos \in InnerPositions \ {from[r] : r \in 1..k} :
               \A r \in 1..k : InnerAt(pos[1], pos[2])._score <= metas[r].score

\* outer hits with inner scores [0, 2] and [1], top_k = 2: 2 and 1 are returned
C3_Witness ==
  /\ Returned("query")
  /\ self.is_nested
  /\ call.top_k = 2
  /\ Len(call.result) = 2
  /\ TotalInner(call.result) = 3
  /\ Len(InnerHitsOf(self, call.result[1])) = 2
  /\ InnerAt(1, 1)._score = 0
  /\ ret.outcome = "ok"
  /\ ret.value[2][1].score = 2
  /\ ret.value[2][2].score = 1
  /\ ret.value[2][2].paragraph_id = HitId(2)

\* the documents whose index call went through, in the order of the list
RECURSIVE Written(_, _)
Written(documents, fails) ==
  IF documents = <<>> THEN <<>>
  ELSE LET n == Len(documents)
           before == Written(SubSeq(documents, 1, n - 1), SubSeq(fails, 1, n - 1))
       IN IF fails[n] THEN before ELSE Append(before, documents[n])

\* C4: write_documents issues one index call per document, in order, whatever
\* fails; it does not raise; it logs one failure per failed call and the
\* successful writes stay.
C4_WriteAll ==
  Returned("write_documents") =>
    /\ ret.outcome = "ok"
    /\ ret.indexed = call.documents
    /\ Len(ret.logged) = Cardinality({i \in 1..Len(call.documents) : call.fails[i]})
    /\ ret.stored = Written(call.documents, call.fails)

C4_Witness ==
  /\ Returned("write_documents")
  /\ call.fails = <<FALSE, TRUE, FALSE>>
  /\ ret.outcome = "ok"
  /\ Len(ret.indexed) = 3
  /\ Len(ret.logged) = 1
  /\ Len(ret.stored) = 2

\* C5: get_all_documents is lazy: when the caller has taken k records the scan
\* has yielded no more hits than those k records need (one, before the first).
C5_LazyScan ==
  Returned("get_all_documents") => scanYielded <= Max(consumed, 1)

\* C6: a lookup by id or by name returns the record of the matching hit when
\* the search has hits and none when it has not; it does not fail.
C6_LookupReturnsRecord ==
  (Returned("get_document_by_id") \/ Returned("get_document_by_name")) =>
    /\ ret.outcome = "ok"
    /\ IF call.result = <<>>
       THEN ret.value = None
       ELSE ret.value = [id |-> call.result[1]._source[self.doc_id_field],
                         name |-> call.result[1]._source[self.name_field],
                         text |-> call.result[1]._source[self.text_field]]

\* C7: the body of a text query has size top_k and one bool clause with exactly
\* the multi_match clause in should; no filter key without candidate ids, the
\* terms filter on _id with them; the bool clause sits in a nested envelope with
\* the nested path and inner_hits when the store is nested, at the top otherwise.
C7_TextQueryBody ==
  Returned("query") =>
    LET body == call.body
        clause == IF self.is_nested THEN body.query.nested.query ELSE body.query
    IN /\ body.size = call.top_k
       /\ IF self.is_nested
          THEN /\ DOMAIN body.query = {"nested"}
               /\ body.query.nested.path = self.nested_path
               /\ "inner_hits" \in DOMAIN body.query.nested
          ELSE DOMAIN body.query = {"bool"}
       /\ DOMAIN clause = {"bool"}
       /\ Len(clause.bool.should) = 1
       /\ DOMAIN clause.bool.should[1] = {"multi_match"}
       /\ clause.bool.should[1].multi_match.query = call.query
       /\ IF call.candidate_doc_ids.some /\ call.candidate_doc_ids.v # <<>>
          THEN /\ DOMAIN clause.bool = {"should", "filter"}
               /\ clause.bool.filter = << [terms |-> [_id |-> call.candidate_doc_ids.v]] >>
          ELSE DOMAIN clause.bool = {"should"}

C7_Witness ==
  /\ Returned("query")
  /\ self.is_nested
  /\ call.candidate_doc_ids = Some(<<HitId(1), HitId(2)>>)
  /\ call.body.query.nested.query.bool.filter[1].terms._id = <<HitId(1), HitId(2)>>
  /\ call.body.size = 2

\* C8: an embedding query adds 1.0 in the script and reports, for every hit in
\* arrival order, the backend score less 1.0.
C8_ScoreOffsetPair ==
  (Returned("query_by_embedding") /\ Truthy(self.embedding_field)) =>
    /\ call.body.query.script_score.script.source.offset = 1
    /\ ret.outcome = "ok"
    /\ Len(ret.value[1]) = Len(call.result)
    /\ Len(ret.value[2]) = Len(call.result)
    /\ \A i \in 1..Len(call.result) :
         /\ ret.value[1][i] = call.result[i]._source[self.text_field]
         /\ ret.value[2][i][<<"paragraph_id">>] = call.result[i]._id
         /\ ret.value[2][i][<<"score">>] = call.result[i]._score - 1

\* C9: on a store without an embedding field query_by_embedding raises, and the
\* number of search calls is what it was before the call.
C9_NoEmbeddingNoSearch ==
  [][(phase = "idle" /\ ~ Truthy(self.embedding_field)
        /\ call'.op = "query_by_embedding")
       => (ret'.outcome = "raise" /\ ret'.error = "RuntimeError"
             /\ searchCalls' = searchCalls)]_vars

C9_Witness ==
  /\ Returned("query_by_embedding")
  /\ ~ Truthy(self.embedding_field)
  /\ ret.outcome = "raise"
  /\ searchCalls = 1

\* C10: the script of an embedding query reads the vector from the configured
\* embedding field, the one the index mapping declares as dense_vector.
C10_ScriptReadsEmbeddingField ==
  (Returned("query_by_embedding") /\ Truthy(self.embedding_field)) =>
    LET field == call.body.query.script_score.script.source.doc_field
    IN /\ field = self.embedding_field.v
       /\ field \in DOMAIN self.mapping
       /\ self.mapping[field].type = "dense_vector"

====
